---- MODULE Spec2Model ----
(***************************************************************************)
(* docs/source/conf.py of Microsoft-365-Extractor-Suite: the Sphinx        *)
(* configuration module.  Sphinx evaluates the file once per build, top to *)
(* bottom, in a fresh namespace; the module's globals after the last       *)
(* statement are the configuration record.  The model runs NumRuns         *)
(* evaluations, each started in an environment of its own, one action per  *)
(* assignment statement of the file.                                       *)
(***************************************************************************)
EXTENDS Integers, Sequences, FiniteSets, TLC

\* Number of evaluations (builds) of conf.py that are modelled side by side.
NumRuns == 2

Runs == 1..NumRuns

\* What a build's environment can look like: working directory, the value of
\* an environment variable, and the modules imported before conf.py is read.
Envs == {[cwd |-> "/repo/docs", environ |-> "", modules |-> {}],
         [cwd |-> "/tmp", environ |-> "9.9.9", modules |-> {"os"}],
         [cwd |-> "/repo/docs", environ |-> "9.9.9", modules |-> {}],
         [cwd |-> "/tmp", environ |-> "", modules |-> {"os"}]}

VARIABLES env, pc, ns

vars == <<env, pc, ns>>

(***************************************************************************)
(* Python values, tagged with their type.                                  *)
(***************************************************************************)
Str(s) == [type |-> "str", val |-> s]

None == [type |-> "NoneType", val |-> "None"]

List(items) == [type |-> "list", val |-> items]

Tuple(items) == [type |-> "tuple", val |-> items]

\* A dict display keeps, for a key written twice, only the last value.
Dict(items) ==
    LET kept == SelectSeq([i \in 1..Len(items) |-> <<i, items[i]>>],
                    LAMBDA p : \A j \in (p[1] + 1)..Len(items) :
                                    items[j][1] # p[2][1])
    IN  [type |-> "dict", val |-> [i \in 1..Len(kept) |-> kept[i][2]]]

\* The outcome of evaluating an expression that raised.
Raised(exc) == [type |-> "exception", val |-> exc]

(***************************************************************************)
(* The right-hand sides of the file's assignments.                         *)
(***************************************************************************)
project == Str("Microsoft-Extractor-Suite")

copyright == Str("Copyright 2025 Invictus Incident Response")

author == Str("Joey Rentenaar & Korstiaan Stam")

release == Str("3.0.4")

\* A release bump that forgot the second label.
version_not_bumped == Str("3.0.3")

\* `version = relase`: a misspelt name on the right-hand side.
version_name_error == Raised("NameError")

version == Str("3.0.4")

\* The same plugin listed twice.
extensions_duplicate ==
    List(<<Str("sphinx.ext.duration"),
           Str("sphinx.ext.doctest"),
           Str("sphinx.ext.autodoc"),
           Str("sphinx.ext.autodoc"),
           Str("sphinx.ext.intersphinx")>>)

\* The intersphinx plugin dropped from the list, its options left behind.
extensions_without_intersphinx ==
    List(<<Str("sphinx.ext.duration"),
           Str("sphinx.ext.doctest"),
           Str("sphinx.ext.autodoc"),
           Str("sphinx.ext.autosummary")>>)

extensions ==
    List(<<Str("sphinx.ext.duration"),
           Str("sphinx.ext.doctest"),
           Str("sphinx.ext.autodoc"),
           Str("sphinx.ext.autosummary"),
           Str("sphinx.ext.intersphinx")>>)

\* An entry written as a bare URL instead of a (url, inventory) pair.
intersphinx_mapping_bare_url ==
    Dict(<< <<Str("python"), Tuple(<<Str("https://docs.python.org/3/"), None>>)>>,
            <<Str("sphinx"), Str("https://www.sphinx-doc.org/en/master/")>> >>)

intersphinx_mapping ==
    Dict(<< <<Str("python"), Tuple(<<Str("https://docs.python.org/3/"), None>>)>>,
            <<Str("sphinx"),
              Tuple(<<Str("https://www.sphinx-doc.org/en/master/"), None>>)>> >>)

\* The same domain disabled twice.
intersphinx_disabled_domains_repeated == List(<<Str("std"), Str("std")>>)

intersphinx_disabled_domains == List(<<Str("std")>>)

templates_path == List(<<Str("_templates")>>)

\* The theme left blank.
html_theme_blank == Str("")

html_theme == Str("sphinx_rtd_theme")

\* A misspelt policy value.
epub_show_urls_misspelt == Str("footnotes")

epub_show_urls == Str("footnote")

(***************************************************************************)
(* Statement execution.                                                    *)
(***************************************************************************)
\* The names the file binds, in statement order.
Fields == <<"project", "copyright", "author", "release", "version",
            "extensions", "intersphinx_mapping",
            "intersphinx_disabled_domains", "templates_path", "html_theme",
            "epub_show_urls">>

FieldSet == {Fields[i] : i \in 1..Len(Fields)}

\* Binding a name in a module namespace.
Store(g, name, value) ==
    [n \in DOMAIN g \cup {name} |-> IF n = name THEN value ELSE g[n]]

\* `target = <expression>`: bind the value and go on to the statement `next`,
\* or stop the evaluation if the expression raised.
Assign(r, target, value, next) ==
    IF value.type = "exception"
       THEN /\ pc' = [pc EXCEPT ![r] = "raised"]
            /\ ns' = ns
       ELSE /\ pc' = [pc EXCEPT ![r] = next]
            /\ ns' = [ns EXCEPT ![r] = Store(@, target, value)]

AssignProject(r) ==
    /\ pc[r] = "project"
    /\ Assign(r, "project", project, "copyright")
    /\ UNCHANGED env

AssignCopyright(r) ==
    /\ pc[r] = "copyright"
    /\ Assign(r, "copyright", copyright, "author")
    /\ UNCHANGED env

AssignAuthor(r) ==
    /\ pc[r] = "author"
    /\ Assign(r, "author", author, "release")
    /\ UNCHANGED env

\* `release = os.environ.get(...)`: the label taken from the build environment.
AssignReleaseFromEnviron(r) ==
    /\ pc[r] = "release"
    /\ Assign(r, "release", Str(env[r].environ), "version")
    /\ UNCHANGED env

AssignRelease(r) ==
    /\ pc[r] = "release"
    /\ Assign(r, "release", release, "version")
    /\ UNCHANGED env

\* The second label written to the first one's name, with another value.
AssignVersionToRelease(r) ==
    /\ pc[r] = "version"
    /\ Assign(r, "release", Str("3.0.5"), "extensions")
    /\ UNCHANGED env

AssignVersion(r) ==
    /\ pc[r] = "version"
    /\ Assign(r, "version", version, "extensions")
    /\ UNCHANGED env

AssignExtensions(r) ==
    /\ pc[r] = "extensions"
    /\ Assign(r, "extensions", extensions, "intersphinx_mapping")
    /\ UNCHANGED env

AssignIntersphinxMapping(r) ==
    /\ pc[r] = "intersphinx_mapping"
    /\ Assign(r, "intersphinx_mapping", intersphinx_mapping, "intersphinx_disabled_domains")
    /\ UNCHANGED env

AssignIntersphinxDisabledDomains(r) ==
    /\ pc[r] = "intersphinx_disabled_domains"
    /\ Assign(r, "intersphinx_disabled_domains", intersphinx_disabled_domains, "templates_path")
    /\ UNCHANGED env

AssignTemplatesPath(r) ==
    /\ pc[r] = "templates_path"
    /\ Assign(r, "templates_path", templates_path, "html_theme")
    /\ UNCHANGED env

AssignHtmlTheme(r) ==
    /\ pc[r] = "html_theme"
    /\ Assign(r, "html_theme", html_theme, "epub_show_urls")
    /\ UNCHANGED env

AssignEpubShowUrls(r) ==
    /\ pc[r] = "epub_show_urls"
    /\ Assign(r, "epub_show_urls", epub_show_urls, "done")
    /\ UNCHANGED env

\* Every evaluation starts at the first statement with an empty namespace, in
\* whatever environment the build runs in.
Init ==
    /\ env \in [Runs -> Envs]
    /\ pc = [r \in Runs |-> "project"]
    /\ ns = [r \in Runs |-> <<>>]

Next ==
    \/ \E r \in Runs : AssignProject(r)
    \/ \E r \in Runs : AssignCopyright(r)
    \/ \E r \in Runs : AssignAuthor(r)
    \/ \E r \in Runs : AssignRelease(r)
    \/ \E r \in Runs : AssignVersion(r)
    \/ \E r \in Runs : AssignExtensions(r)
    \/ \E r \in Runs : AssignIntersphinxMapping(r)
    \/ \E r \in Runs : AssignIntersphinxDisabledDomains(r)
    \/ \E r \in Runs : AssignTemplatesPath(r)
    \/ \E r \in Runs : AssignHtmlTheme(r)
    \/ \E r \in Runs : AssignEpubShowUrls(r)

Spec == Init /\ [][Next]_vars

\* The interpreter runs a module's statements one after the other until the
\* last one has run; it never stops in the middle of the file.
FairSpec == Spec /\ WF_vars(Next)

(***************************************************************************)
(* Properties.                                                             *)
(***************************************************************************)
Defined(r, name) == name \in DOMAIN ns[r]

Done(r) == pc[r] = "done"

IsStr(v) == v.type = "str"

NonEmptyStr(v) == IsStr(v) /\ v.val # ""

NoRepeats(seq) == \A i, j \in 1..Len(seq) : seq[i] = seq[j] => i = j

\* The Python type each field of the data model is expected to have.
ExpectedType ==
    [f \in FieldSet |->
        CASE f \in {"extensions", "intersphinx_disabled_domains",
                    "templates_path"} -> "list"
          [] f = "intersphinx_mapping" -> "dict"
          [] OTHER -> "str"]

NonEmptyFields ==
    {"project", "copyright", "author", "version", "release", "html_theme"}

\* C1: once conf.py has been evaluated from an empty namespace, every field
\* of the data model is defined and has the expected type, and project,
\* copyright, author, version, release and html_theme are non-empty strings.
C1_FieldsWellTyped ==
    \A r \in Runs :
        Done(r) =>
            \A f \in FieldSet :
                /\ Defined(r, f)
                /\ ns[r][f].type = ExpectedType[f]
                /\ f \in NonEmptyFields => NonEmptyStr(ns[r][f])

C1_Witness ==
    \E r \in Runs : Done(r) /\ DOMAIN ns[r] = FieldSet

\* The values Sphinx accepts for epub_show_urls.
EpubShowUrlsValues == {"inline", "footnote", "no"}

\* C2: epub_show_urls, whenever it is bound, is one of the EPUB URL-display
\* policy values 'inline', 'footnote', 'no'.
C2_EpubShowUrlsValid ==
    \A r \in Runs :
        /\ Defined(r, "epub_show_urls") =>
              /\ IsStr(ns[r]["epub_show_urls"])
              /\ ns[r]["epub_show_urls"].val \in EpubShowUrlsValues
        /\ Done(r) => Defined(r, "epub_show_urls")

C2_Witness ==
    \E r \in Runs :
        Done(r) /\ Defined(r, "epub_show_urls")
                /\ ns[r]["epub_show_urls"].val = "footnote"

\* The extensions that ship with Sphinx.
BuiltinExtensions ==
    {"sphinx.ext.apidoc", "sphinx.ext.autodoc", "sphinx.ext.autosectionlabel",
     "sphinx.ext.autosummary", "sphinx.ext.coverage", "sphinx.ext.doctest",
     "sphinx.ext.duration", "sphinx.ext.extlinks", "sphinx.ext.githubpages",
     "sphinx.ext.graphviz", "sphinx.ext.ifconfig", "sphinx.ext.imgconverter",
     "sphinx.ext.imgmath", "sphinx.ext.inheritance_diagram",
     "sphinx.ext.intersphinx", "sphinx.ext.linkcode", "sphinx.ext.mathjax",
     "sphinx.ext.napoleon", "sphinx.ext.todo", "sphinx.ext.viewcode"}

\* C3: extensions is a sequence of strings, each the name of a built-in
\* sphinx.ext.* extension, and no name appears more than once.
C3_ExtensionsRecognized ==
    \A r \in Runs :
        Defined(r, "extensions") =>
            LET e == ns[r]["extensions"] IN
            /\ e.type = "list"
            /\ \A i \in 1..Len(e.val) :
                  IsStr(e.val[i]) /\ e.val[i].val \in BuiltinExtensions
            /\ NoRepeats(e.val)

C3_Witness ==
    \E r \in Runs :
        Defined(r, "extensions") /\ Len(ns[r]["extensions"].val) = 5

\* C4: every key of intersphinx_mapping is a string and every value is a
\* pair (url, inventory) with url a non-empty string and inventory None or a
\* string.
C4_MappingShape ==
    \A r \in Runs :
        Defined(r, "intersphinx_mapping") =>
            LET m == ns[r]["intersphinx_mapping"] IN
            /\ m.type = "dict"
            /\ \A i \in 1..Len(m.val) :
                  LET k == m.val[i][1]
                      v == m.val[i][2]
                  IN  /\ IsStr(k)
                      /\ v.type = "tuple"
                      /\ Len(v.val) = 2
                      /\ NonEmptyStr(v.val[1])
                      /\ v.val[2].type \in {"NoneType", "str"}

C4_Witness ==
    \E r \in Runs :
        Defined(r, "intersphinx_mapping")
            /\ Len(ns[r]["intersphinx_mapping"].val) = 2

\* C5: every element of intersphinx_disabled_domains is a string and no
\* domain name occurs in it more than once.
C5_DisabledDomainsDistinct ==
    \A r \in Runs :
        Defined(r, "intersphinx_disabled_domains") =>
            LET d == ns[r]["intersphinx_disabled_domains"] IN
            /\ d.type = "list"
            /\ \A i \in 1..Len(d.val) : IsStr(d.val[i])
            /\ NoRepeats(d.val)

C5_Witness ==
    \E r \in Runs :
        Defined(r, "intersphinx_disabled_domains")
            /\ Len(ns[r]["intersphinx_disabled_domains"].val) = 1

\* C6: each field is assigned exactly once: a bound field is never rebound
\* or changed by a later statement, every field is bound when the last
\* statement has run, and from then on the record does not change.
C6_AssignedOnce ==
    /\ [][\A r \in Runs :
             /\ \A f \in DOMAIN ns[r] :
                   f \in DOMAIN ns'[r] /\ ns'[r][f] = ns[r][f]
             /\ Done(r) => ns'[r] = ns[r] /\ pc'[r] = pc[r]]_vars
    /\ [](\A r \in Runs : Done(r) => DOMAIN ns[r] = FieldSet)

C6_Witness ==
    \A r \in Runs : Done(r) /\ Cardinality(DOMAIN ns[r]) = Len(Fields)

\* C7: no evaluation raises, and every evaluation runs to the last
\* assignment and ends with the complete configuration record.
C7_NeverRaises ==
    /\ [](\A r \in Runs : pc[r] # "raised")
    /\ <>(\A r \in Runs : Done(r) /\ DOMAIN ns[r] = FieldSet)

C7_Witness ==
    \A r \in Runs : pc[r] = "done" /\ Defined(r, "epub_show_urls")

\* C8: after the evaluation, release equals version.
C8_ReleaseEqualsVersion ==
    \A r \in Runs :
        Done(r) =>
            /\ Defined(r, "release") /\ Defined(r, "version")
            /\ ns[r]["release"] = ns[r]["version"]

C8_Witness ==
    \E r \in Runs :
        Done(r) /\ Defined(r, "version") /\ ns[r]["version"].val = "3.0.4"

NonEmptyCollection(r, name) ==
    Defined(r, name) /\ Len(ns[r][name].val) > 0

\* C9: whenever intersphinx_mapping or intersphinx_disabled_domains is
\* non-empty, 'sphinx.ext.intersphinx' is an element of extensions.
C9_IntersphinxEnabled ==
    \A r \in Runs :
        (\/ NonEmptyCollection(r, "intersphinx_mapping")
         \/ NonEmptyCollection(r, "intersphinx_disabled_domains"))
        => /\ Defined(r, "extensions")
           /\ \E i \in 1..Len(ns[r]["extensions"].val) :
                 ns[r]["extensions"].val[i] = Str("sphinx.ext.intersphinx")

C9_Witness ==
    \E r \in Runs :
        /\ NonEmptyCollection(r, "intersphinx_mapping")
        /\ NonEmptyCollection(r, "intersphinx_disabled_domains")

\* C10: two evaluations started in any two environments end with identical
\* configuration records.
C10_EnvironmentIndependent ==
    \A r1, r2 \in Runs :
        Done(r1) /\ Done(r2) => ns[r1] = ns[r2]

C10_Witness ==
    \E r1, r2 \in Runs :
        /\ Done(r1) /\ Done(r2)
        /\ env[r1].cwd # env[r2].cwd
        /\ env[r1].environ # env[r2].environ
        /\ env[r1].modules # env[r2].modules


====
